---- MODULE Spec2Model ----
(***************************************************************************)
(* Model of the real-time speech streaming engine of voice-assistant:      *)
(* AzureWebSocketSpeechService (src/internal/speech/azure.go).             *)
(*                                                                         *)
(* Threads of control:                                                     *)
(*   <<"c", 1>>  the hotkey goroutine, which starts and stops sessions;    *)
(*   <<"c", 2>>  the other goroutines of main that call the engine: the    *)
(*               auto-stop timer (Stop), the start-up check                *)
(*               (TestConnection) and the shutdown handler (Close);        *)
(*   <<"f", s>>  handleAudioStreaming of session s (flush + watchdog);     *)
(*   <<"r", s>>  handleWebSocketMessages of session s (receive loop);      *)
(*   <<"a", 0>>  the PortAudio callback context running processAudio.      *)
(* Each labelled step is one access to the shared fields, so that the      *)
(* unlocked reads of the goroutines interleave with the locked bodies of   *)
(* Start and Stop the way the Go scheduler lets them.  Time is abstracted: *)
(* a ticker or timer may fire whenever its goroutine waits for it.         *)
(***************************************************************************)
EXTENDS Integers, Sequences, FiniteSets, TLC

\* ---------------------------------------------------------------- bounds
MaxDials    == 2   \* connections dialled in one run
MaxSessions == 1   \* sessions started in one run
MaxSamples  == 2   \* buffers delivered by the audio callback in one run
ApiSamples  == 1   \* buffers delivered in a run with TestConnection and Close
ScenarioTicks == 3 \* non-empty flush ticks of the flush-and-stop run
MaxChunk    == 2   \* samples in a chunk handed to the framer
MaxRecordings == 2 \* recordings the batch recorder attempts in one run
MaxCalls    == 3   \* StartRecording/StopRecording calls of the user in one run
MaxTime     == 3   \* clock ticks of a recorder run
MaxStops    == 2   \* calls of the hotkey Listener's Stop in one run
MaxPresses  == 2   \* key presses the hotkey Listener detects in one run
MaxSends    == 4   \* SendMessage calls of the Claude client in one run

\* ------------------------------------------------------------- constants
NoConn   == 0      \* a.conn == nil
NoStream == 0      \* a.stream == nil
MaxUint16    == 65535  \* largest value of uint16(len(headerBytes))
FormatLen    == 42     \* bytes of "path:audio\r\nx-requestid:\r\nx-timestamp:\r\n\r\n"
RequestIdLen == 36     \* xxxxxxxx-xxxx-4xxx-yxxx-xxxxxxxxxxxx
TimestampLen == 24     \* 2006-01-02T15:04:05.000Z
Nil          == 0      \* a nil stream or file of the Recorder, the empty path
MaxRecordingDuration == 2  \* 60 * time.Second, in clock ticks of 30 s
StopChanCap  == 1      \* make(chan bool, 1)

Hotkey     == <<"c", 1>>
Background == <<"c", 2>>
Callers    == {Hotkey, Background}
RestartSessions == MaxSessions + 1   \* sessions of a run that starts again
Sessions   == 1..RestartSessions
FlushTasks == {<<"f", s>> : s \in Sessions}
RecvTasks  == {<<"r", s>> : s \in Sessions}
AudioCb    == <<"a", 0>>
Threads    == Callers \cup FlushTasks \cup RecvTasks \cup {AudioCb}
None       == <<"none", 0>>
NoError    == [kind |-> "none", local |-> FALSE]
NoText     == ""
NoFrame    == [type |-> "none", data |-> <<>>]
NoInput    == [hlen |-> 0, chunk |-> <<>>]
NoMessage  == [by |-> "none", sent |-> FALSE, prefix |-> <<>>, header |-> 0, payload |-> <<>>]

VARIABLES
  \* fields of AzureWebSocketSpeechService
  conn, isConnected, isListening, isShuttingDown, mutex,
  stream, audioBuffer, requestId, connectionId,
  \* control state of every thread, and its locals
  pc, op, ret, chunk, rconn, rerr, rtext, inbound, pbuf,
  \* the framer's input and the message it built
  fin, fout,
  \* main: the recording flag, the position of onF12Pressed and the engine
  \* requests the current press has made
  isRecording, hpc, requests,
  \* the batch Recorder: its fields, the clock, the duration monitors, the
  \* results of the calls and what the callbacks have seen
  recorder, now, monitors, rret, calls, attempts, stopped, completed, recErrors,
  \* the hotkey Listener: its fields, the polling goroutine and its locals,
  \* the caller of Stop, and the callbacks invoked
  running, stopChan, lpc, lastF12State, lastCtrlQState, lstop, stops,
  callbacks, late,
  \* the Claude client: its conversation log, the payload of its last
  \* request, the result of the last SendMessage and the number of calls
  conversationLog, request, sendRet, sends,
  \* environment: network and audio device
  dialled, open, wire, streamOpen, streamOn, samples, sessions, paReady,
  \* what the callbacks and the process have seen
  errors, teardowns, crashed

flags   == <<isConnected, isListening, isShuttingDown>>
ids     == <<requestId, connectionId>>
fields  == <<conn, flags, mutex, stream, audioBuffer, ids>>
control == <<pc, op, ret>>
batch   == <<recorder, now, monitors, rret, calls, attempts, stopped, completed,
             recErrors>>
poller  == <<running, stopChan, lpc, lastF12State, lastCtrlQState, lstop, stops,
             callbacks, late>>
claude  == <<conversationLog, request, sendRet, sends>>
others  == <<batch, poller, claude>>
framer  == <<fin, fout, others>>
handler == <<isRecording, hpc, requests>>
flushL  == <<chunk, framer, handler>>
recvL   == <<rconn, rerr, rtext, inbound>>
locals  == <<control, flushL, recvL, pbuf>>
network == <<dialled, open, wire>>
audio   == <<streamOpen, streamOn, samples, paReady>>
env     == <<network, audio, sessions>>
obs     == <<errors, teardowns, crashed>>
vars    == <<fields, locals, env, obs>>

\* ------------------------------------------------------------ helpers
IsCaller(t) == t \in Callers
IsFlush(t)  == t \in FlushTasks

\* outbound frames, as handed to conn.WriteMessage
ConfigFrame      == [kind |-> "config", rid |-> requestId, data |-> <<>>]
AudioFrame(data) == [kind |-> "audio",  rid |-> requestId, data |-> data]
EndOfAudioFrame  == [kind |-> "audio",  rid |-> requestId, data |-> <<>>]

Written(c, frame) == [wire EXCEPT ![c] = Append(@, frame)]
At(t, label)      == ~crashed /\ pc[t] = label

\* a thread moves on inside the operation it is executing
Goto(t, label) ==
  /\ pc' = [pc EXCEPT ![t] = label]
  /\ UNCHANGED <<op, ret>>

\* a caller enters an exported operation
Enter(t, o, label) ==
  /\ pc' = [pc EXCEPT ![t] = label]
  /\ op' = [op EXCEPT ![t] = o]
  /\ UNCHANGED ret

\* an exported operation returns r to its caller: nil ("ok"), nil after
\* logging that the request is ignored ("ok_ignored"), or one of the wrapped
\* errors ("err_connect", "err_capture", "err_test")
Return(t, o, r) ==
  /\ pc'  = [pc EXCEPT ![t] = "returned"]
  /\ op'  = [op EXCEPT ![t] = o]
  /\ ret' = [ret EXCEPT ![t] = r]

\* ---------------------------------------------------------------- Init
\* NewAzureWebSocketSpeechService followed by SetCallbacks, as main does.
InitEngine ==
  /\ conn = NoConn /\ isConnected = FALSE /\ isListening = FALSE
  /\ isShuttingDown = FALSE /\ mutex = None
  /\ stream = NoStream /\ audioBuffer = <<>>
  /\ requestId = 1 /\ connectionId = 0
  /\ pc = [t \in Threads |-> IF t \in Callers \/ t = AudioCb THEN "idle" ELSE "unborn"]
  /\ op = [t \in Callers |-> "none"]
  /\ ret = [t \in Callers |-> "none"]
  /\ chunk = [s \in Sessions |-> <<>>]
  /\ rconn = [s \in Sessions |-> NoConn]
  /\ rerr  = [s \in Sessions |-> NoError]
  /\ rtext = [s \in Sessions |-> NoText]
  /\ inbound = [s \in Sessions |-> NoFrame]
  /\ pbuf = <<>>
  /\ dialled = 0 /\ open = {} /\ wire = [c \in 1..MaxDials |-> <<>>]
  /\ streamOpen = {} /\ streamOn = {} /\ samples = 0 /\ paReady = TRUE
  /\ sessions = 0
  /\ errors = {} /\ teardowns = [s \in Sessions |-> <<>>]
  /\ crashed = FALSE

\* var isRecording bool; no press is being handled
InitHandler == isRecording = FALSE /\ hpc = "idle" /\ requests = <<>>

\* NewRecorder followed by SetCallbacks: not recording, no stream, no file,
\* no path; no duration monitor has been started
User       == <<"u", 0>>
Recordings == 1..MaxRecordings
Monitor(k) == <<"m", k>>
RecCallers == {User} \cup {Monitor(k) : k \in Recordings}
NoResult   == [op |-> "none", err |-> "none"]
NotStopped == [by |-> None, lasted |-> 0]

InitRecorder ==
  /\ recorder = [isRecording |-> FALSE, stream |-> Nil, file |-> Nil,
                 tempFilePath |-> Nil, startTime |-> 0]
  /\ now = 0
  /\ monitors = [k \in Recordings |-> [pc |-> "unborn", since |-> 0, saw |-> Nil]]
  /\ rret = [t \in RecCallers |-> NoResult]
  /\ calls = 0 /\ attempts = 0
  /\ stopped = [k \in Recordings |-> NotStopped]
  /\ completed = <<>> /\ recErrors = {}

\* NewListener: not running, an empty stopChan of capacity 1; the polling
\* goroutine does not exist yet
InitListener ==
  /\ running = FALSE /\ stopChan = 0
  /\ lpc = "unborn" /\ lastF12State = FALSE /\ lastCtrlQState = FALSE
  /\ lstop = "idle" /\ stops = 0
  /\ callbacks = 0 /\ late = FALSE

\* NewClient: conversationLog: make([]Message, 0)
NoRequest == [system |-> FALSE, messages |-> <<>>]

InitClient ==
  /\ conversationLog = <<>> /\ request = NoRequest
  /\ sendRet = [text |-> "", err |-> "none"] /\ sends = 0

InitOthers == InitRecorder /\ InitListener /\ InitClient

Init == InitEngine /\ InitHandler /\ InitOthers /\ fin = NoInput /\ fout = NoMessage

\* the caller takes the returned value and is free to call again
Returns(t) ==
  /\ IsCaller(t) /\ At(t, "returned")
  /\ pc'  = [pc EXCEPT ![t] = "idle"]
  /\ op'  = [op EXCEPT ![t] = "none"]
  /\ ret' = [ret EXCEPT ![t] = "none"]
  /\ UNCHANGED <<fields, flushL, recvL, pbuf, env, obs>>

\* --------------------------------------------- disconnectWebSocket, cleanup
\* disconnectWebSocket, first half: if a.conn != nil { a.conn.Close(); a.conn = nil }
DisconnectClose ==
  /\ open' = open \ {conn}
  /\ conn' = NoConn
  /\ UNCHANGED <<dialled, wire>>

\* cleanup: if a.stream != nil { Stop(); Close(); a.stream = nil }.
\* Pa_StopStream returns only once no callback is in flight.
Cleanup ==
  /\ stream # NoStream => pc[AudioCb] = "idle"
  /\ streamOn' = streamOn \ {stream}
  /\ streamOpen' = streamOpen \ {stream}
  /\ stream' = NoStream
  /\ UNCHANGED <<samples, paReady>>

\* (variant) the dial succeeds and the connection identifier is left as it was
ConnectDialOkKeepsId ==
  /\ dialled' = dialled + 1
  /\ open' = open \cup {dialled + 1}
  /\ conn' = dialled + 1
  /\ isConnected' = TRUE
  /\ UNCHANGED <<wire, isListening, isShuttingDown, requestId, connectionId>>

\* connectWebSocket: websocket.DefaultDialer.Dial succeeded
ConnectDialOk ==
  /\ dialled' = dialled + 1
  /\ open' = open \cup {dialled + 1}
  /\ conn' = dialled + 1
  /\ isConnected' = TRUE
  /\ connectionId' = dialled + 1
  /\ UNCHANGED <<wire, isListening, isShuttingDown, requestId>>

\* ------------------------------------------ StartContinuousRecognition
\* (variant) the guard is missing its effect: the call is answered with nil
\* but the request id is generated again, as a fresh start would do
StartAlreadyListeningFresh(t) ==
  /\ Return(t, "start", "ok_ignored")
  /\ requestId' = requestId + 1
  /\ UNCHANGED <<conn, flags, mutex, stream, audioBuffer, connectionId,
                 flushL, recvL, pbuf, env, obs>>

\* Lock; "if a.isListening { return nil }"
StartAlreadyListening(t) ==
  /\ Return(t, "start", "ok_ignored")
  /\ UNCHANGED <<fields, flushL, recvL, pbuf, env, obs>>

\* connectWebSocket: the dial fails and Start returns the error
StartDialFailed(t) ==
  /\ Return(t, "start", "err_connect")
  /\ UNCHANGED <<fields, flushL, recvL, pbuf, env, obs>>

StartDialled(t) ==
  /\ ConnectDialOk
  /\ mutex' = t
  /\ Enter(t, "start", "start_config")
  /\ UNCHANGED <<stream, audioBuffer, flushL, recvL, pbuf, audio, sessions, obs>>

\* Start in a run of at most n sessions
StartWithin(t, n) ==
  /\ t = Hotkey /\ At(t, "idle") /\ mutex = None
  /\ IF isListening
       THEN StartAlreadyListening(t)
       ELSE /\ dialled < MaxDials /\ sessions < n
            /\ (StartDialled(t) \/ StartDialFailed(t))

Start(t) == StartWithin(t, MaxSessions)

\* sendSpeechConfig: a.conn.WriteMessage(TextMessage, config); on failure
\* connectWebSocket returns the error and Start returns it as it is
StartConfigFailed(t) ==
  /\ mutex' = None
  /\ Return(t, "start", "err_connect")

StartConfig(t) ==
  /\ At(t, "start_config")
  /\ IF conn = NoConn
       THEN /\ crashed' = TRUE            \* nil *websocket.Conn dereferenced
            /\ UNCHANGED <<fields, locals, env, errors, teardowns>>
       ELSE /\ wire' = Written(conn, ConfigFrame)
            /\ \/ Goto(t, "start_capture") /\ UNCHANGED mutex
               \/ StartConfigFailed(t)
            /\ UNCHANGED <<conn, flags, stream, audioBuffer, ids, flushL, recvL, pbuf,
                           dialled, open, audio, sessions, obs>>

\* startAudioCapture: reset the buffer, OpenDefaultStream, stream.Start()
CaptureStarted ==
  /\ paReady
  /\ stream' = dialled                    \* a fresh handle
  /\ streamOpen' = streamOpen \cup {dialled}
  /\ streamOn' = streamOn \cup {dialled}
  /\ UNCHANGED <<samples, paReady>>

\* OpenDefaultStream fails: a.stream is not assigned
CaptureOpenFailed ==
  UNCHANGED <<stream, streamOpen, streamOn, samples, paReady>>

\* stream.Start() fails: a.cleanup() closes the stream just opened
CaptureStartFailed ==
  /\ paReady
  /\ stream' = NoStream
  /\ UNCHANGED <<streamOpen, streamOn, samples, paReady>>

StartCapture(t) ==
  /\ At(t, "start_capture")
  /\ audioBuffer' = <<>>
  /\ \/ CaptureStarted /\ Goto(t, "start_listen")
     \/ CaptureOpenFailed /\ Goto(t, "start_rollback")
     \/ CaptureStartFailed /\ Goto(t, "start_rollback")
  /\ UNCHANGED <<conn, flags, mutex, ids, flushL, recvL, pbuf, network, sessions, obs>>

\* (variant) the capture failure path without a.disconnectWebSocket()
StartRollbackLeak(t) ==
  /\ At(t, "start_rollback")
  /\ Goto(t, "start_unwound")
  /\ UNCHANGED <<fields, flushL, recvL, pbuf, env, obs>>

\* capture failed: a.disconnectWebSocket() ...
StartRollback(t) ==
  /\ At(t, "start_rollback")
  /\ DisconnectClose
  /\ Goto(t, "start_unwound")
  /\ UNCHANGED <<flags, mutex, stream, audioBuffer, ids, flushL, recvL, pbuf,
                 audio, sessions, obs>>

\* ... a.isConnected = false, then return the error
StartFailed(t) ==
  /\ At(t, "start_unwound")
  /\ isConnected' = FALSE
  /\ mutex' = None
  /\ Return(t, "start", "err_capture")
  /\ UNCHANGED <<conn, isListening, isShuttingDown, stream, audioBuffer, ids,
                 flushL, recvL, pbuf, env, obs>>

\* a.isListening = true; go handleWebSocketMessages(); go handleAudioStreaming()
SpawnTasks(t) ==
  /\ sessions' = sessions + 1
  /\ pc' = [pc EXCEPT ![t] = "returned",
                      ![<<"r", sessions + 1>>] = "loop",
                      ![<<"f", sessions + 1>>] = "wait"]
  /\ ret' = [ret EXCEPT ![t] = "ok"]
  /\ UNCHANGED op

StartListen(t) ==
  /\ At(t, "start_listen")
  /\ isListening' = TRUE
  /\ SpawnTasks(t)
  /\ mutex' = None
  /\ UNCHANGED <<conn, isConnected, isShuttingDown, stream, audioBuffer, ids,
                 flushL, recvL, pbuf, network, audio, obs>>

\* ------------------------------------------- StopContinuousRecognition
\* Who is executing Stop: a caller ("stop"), Close ("close"), or the watchdog
\* branch of handleAudioStreaming ("watchdog").
OpOf(t) == IF IsFlush(t) THEN "watchdog" ELSE op[t]

\* Stop returns nil: to the caller, into Close, or into handleAudioStreaming,
\* which returns in turn.
StopReturns(t, o, r) ==
  CASE o = "watchdog" -> Goto(t, "done")
    [] o = "close"    -> Goto(t, "close_disc")
    [] OTHER          -> Return(t, "stop", r)

\* a.isShuttingDown = true
StopProceed(t, o) ==
  /\ mutex' = t
  /\ isShuttingDown' = TRUE
  /\ teardowns' = [teardowns EXCEPT ![sessions] = Append(@, o)]
  /\ IF o = "stop" THEN Enter(t, "stop", "stop_eoa") ELSE Goto(t, "stop_eoa")
  /\ UNCHANGED <<conn, isConnected, isListening, stream, audioBuffer, ids,
                 flushL, recvL, pbuf, env, errors, crashed>>

\* (variant) the teardown is entered although the engine is not listening
StopNotListeningProceeds(t, o) == StopProceed(t, o)

\* "if !a.isListening { return nil }"
StopNotListening(t, o) ==
  /\ StopReturns(t, o, "ok_ignored")
  /\ UNCHANGED <<fields, flushL, recvL, pbuf, env, obs>>

\* (variant) Stop without the isListening gate
StopBodyUngated(t, o) ==
  /\ ~crashed /\ mutex = None
  /\ StopProceed(t, o)

\* Lock, then the gate on isListening
StopBody(t, o) ==
  /\ ~crashed /\ mutex = None
  /\ IF ~isListening THEN StopNotListening(t, o) ELSE StopProceed(t, o)

\* A caller invokes StopContinuousRecognition.
Stop(t) ==
  /\ IsCaller(t) /\ At(t, "idle")
  /\ StopBody(t, "stop")

\* (variant) the teardown without the end-of-audio frame
StopEndOfAudioSkipped(t) ==
  /\ At(t, "stop_eoa")
  /\ Goto(t, "stop_cleanup")
  /\ UNCHANGED <<fields, flushL, recvL, pbuf, env, obs>>

\* "if a.isConnected && a.conn != nil": write the header-only frame
StopEndOfAudio(t) ==
  /\ At(t, "stop_eoa")
  /\ wire' = IF isConnected /\ conn # NoConn
               THEN Written(conn, EndOfAudioFrame) ELSE wire
  /\ Goto(t, "stop_cleanup")
  /\ UNCHANGED <<fields, flushL, recvL, pbuf, dialled, open, audio, sessions, obs>>

\* a.cleanup()
StopCleanup(t) ==
  /\ At(t, "stop_cleanup")
  /\ Cleanup
  /\ Goto(t, "stop_disc")
  /\ UNCHANGED <<conn, flags, mutex, audioBuffer, ids, flushL, recvL, pbuf,
                 network, sessions, obs>>

\* a.disconnectWebSocket(): close and clear the handle ...
StopDisconnect(t) ==
  /\ At(t, "stop_disc")
  /\ DisconnectClose
  /\ Goto(t, "stop_flag")
  /\ UNCHANGED <<flags, mutex, stream, audioBuffer, ids, flushL, recvL, pbuf,
                 audio, sessions, obs>>

\* ... a.isConnected = false
StopDisconnected(t) ==
  /\ At(t, "stop_flag")
  /\ isConnected' = FALSE
  /\ Goto(t, "stop_fin")
  /\ UNCHANGED <<conn, isListening, isShuttingDown, mutex, stream, audioBuffer, ids,
                 flushL, recvL, pbuf, env, obs>>

\* a.isListening = false; a.isShuttingDown = false; return nil (unlock)
StopFinish(t) ==
  /\ At(t, "stop_fin")
  /\ isListening' = FALSE
  /\ isShuttingDown' = FALSE
  /\ mutex' = None
  /\ StopReturns(t, OpOf(t), "ok")
  /\ UNCHANGED <<conn, isConnected, stream, audioBuffer, ids, flushL, recvL, pbuf,
                 env, obs>>

\* ------------------------------------------------------- processAudio
\* The PortAudio callback: "if !a.isListening || !a.isConnected { return }",
\* then the read half of a.audioBuffer = append(a.audioBuffer, in...).
\* Each invocation delivers the next frame of samples, numbered 1, 2, ...
ProcessAudioWithin(n) ==
  /\ At(AudioCb, "idle")
  /\ streamOn # {}
  /\ samples < n
  /\ samples' = samples + 1
  /\ IF ~isListening \/ ~isConnected
       THEN UNCHANGED <<pc, pbuf>>
       ELSE /\ pbuf' = audioBuffer
            /\ pc' = [pc EXCEPT ![AudioCb] = "append"]
  /\ UNCHANGED <<fields, op, ret, flushL, recvL, network, streamOpen, streamOn, paReady,
                 sessions, obs>>

ProcessAudio == ProcessAudioWithin(MaxSamples)

\* (variant) the callback takes the session lock for its append
ProcessAudioAppendLocked ==
  /\ At(AudioCb, "append")
  /\ mutex = None
  /\ audioBuffer' = Append(pbuf, samples)
  /\ pbuf' = <<>>
  /\ Goto(AudioCb, "idle")
  /\ UNCHANGED <<conn, flags, mutex, stream, ids, flushL, recvL, env, obs>>

\* ... and its write half
ProcessAudioAppend ==
  /\ At(AudioCb, "append")
  /\ audioBuffer' = Append(pbuf, samples)
  /\ pbuf' = <<>>
  /\ Goto(AudioCb, "idle")
  /\ UNCHANGED <<conn, flags, mutex, stream, ids, flushL, recvL, env, obs>>
\* (variant) the tick does not look at the flags: the task stays in its
\* loop after the session has stopped
FlushTickKeepsOn(s) ==
  /\ At(<<"f", s>>, "wait")
  /\ isListening /\ isConnected
  /\ Len(audioBuffer) > 0
  /\ chunk' = [chunk EXCEPT ![s] = audioBuffer]
  /\ Goto(<<"f", s>>, "send")
  /\ UNCHANGED <<fields, framer, handler, recvL, pbuf, env, obs>>

\* ------------------------------------------------ handleAudioStreaming
\* case <-ticker.C: the flag check, then "if len(a.audioBuffer) > 0" and the
\* evaluation of the argument of sendAudioChunk(a.audioBuffer)
FlushTick(s) ==
  /\ At(<<"f", s>>, "wait")
  /\ IF ~isListening \/ ~isConnected
       THEN /\ Goto(<<"f", s>>, "done")
            /\ UNCHANGED chunk
       ELSE /\ Len(audioBuffer) > 0       \* an empty buffer: nothing to do
            /\ chunk' = [chunk EXCEPT ![s] = audioBuffer]
            /\ Goto(<<"f", s>>, "send")
  /\ UNCHANGED <<fields, framer, handler, recvL, pbuf, env, obs>>

\* onError(err) is invoked by thread t for a failed send or read
Reported(t, cause, local) ==
  errors \cup {[by |-> t, cause |-> cause, local |-> local]}

\* (variant) a failed send is reported and the task carries on with the
\* next tick
FlushSendCarriesOn(s) ==
  /\ At(<<"f", s>>, "send")
  /\ conn # NoConn
  /\ wire' = Written(conn, AudioFrame(chunk[s]))
  /\ Goto(<<"f", s>>, "reset")
  /\ errors' \in {errors, Reported(<<"f", s>>, "send", FALSE)}
  /\ chunk' = [chunk EXCEPT ![s] = <<>>]
  /\ UNCHANGED <<fields, framer, handler, recvL, pbuf, dialled, open, audio, sessions,
                 teardowns, crashed>>

\* sendAudioChunk: a.conn.WriteMessage(BinaryMessage, message); on error
\* onError(err) and return
FlushSend(s) ==
  /\ At(<<"f", s>>, "send")
  /\ IF conn = NoConn
       THEN /\ crashed' = TRUE            \* nil *websocket.Conn dereferenced
            /\ UNCHANGED <<control, chunk, wire, errors>>
       ELSE /\ wire' = Written(conn, AudioFrame(chunk[s]))
            /\ \/ Goto(<<"f", s>>, "reset") /\ UNCHANGED errors
               \/ /\ Goto(<<"f", s>>, "done")
                  /\ errors' = Reported(<<"f", s>>, "send", FALSE)
            /\ chunk' = [chunk EXCEPT ![s] = <<>>]
            /\ UNCHANGED crashed
  /\ UNCHANGED <<fields, framer, handler, recvL, pbuf, dialled, open, audio, sessions, teardowns>>

\* a.audioBuffer = make([]int16, 0)
FlushReset(s) ==
  /\ At(<<"f", s>>, "reset")
  /\ audioBuffer' = <<>>
  /\ Goto(<<"f", s>>, "wait")
  /\ UNCHANGED <<conn, flags, mutex, stream, ids, flushL, recvL, pbuf, env, obs>>

\* case <-maxDuration.C: a.StopContinuousRecognition(); return
Watchdog(s) ==
  /\ At(<<"f", s>>, "wait")
  /\ StopBody(<<"f", s>>, "watchdog")

\* -------------------------------------------------- handleTextMessage
\* The bytes of an inbound frame, as a sequence of pieces of text: header
\* words, a CR LF between header lines, the blank-line separator CR LF CR LF,
\* and for the JSON body a whole document, the two halves of a document that
\* has a blank line inside it, or bytes that are no JSON.
NoDoc == [status |-> "", display |-> "", nbest |-> <<>>]
Tok(v)      == [t |-> "txt",   v |-> v,          doc |-> NoDoc]
CRLF        == [t |-> "crlf",  v |-> "\r\n",     doc |-> NoDoc]
CRLFCRLF    == [t |-> "sep",   v |-> "\r\n\r\n", doc |-> NoDoc]
Json(d)     == [t |-> "json",  v |-> "",         doc |-> d]
JsonHead(d) == [t |-> "json1", v |-> "",         doc |-> d]
JsonTail(d) == [t |-> "json2", v |-> "",         doc |-> d]
Junk        == [t |-> "junk",  v |-> "junk",     doc |-> NoDoc]

TextFrame(header, body) == [type |-> "text", data |-> header \o <<CRLFCRLF>> \o body]

\* bytes.Split(data, []byte("\r\n\r\n")): every piece between separators
RECURSIVE Split(_)
Split(data) ==
  IF \E i \in 1..Len(data) : data[i].t = "sep"
    THEN LET i == CHOOSE k \in 1..Len(data) :
                    /\ data[k].t = "sep"
                    /\ \A j \in 1..(k - 1) : data[j].t # "sep"
         IN  <<SubSeq(data, 1, i - 1)>> \o Split(SubSeq(data, i + 1, Len(data)))
    ELSE <<data>>

\* bytes.Contains(hay, needle)
Contains(hay, needle) ==
  \E i \in 1..(Len(hay) - Len(needle) + 1) :
     SubSeq(hay, i, i + Len(needle) - 1) = needle

PhrasePath == <<Tok("Path"), Tok(":"), Tok("speech.phrase")>>

\* bytes.Contains(headers, "Path:speech.phrase")
ContainsPhrasePath(header) == Contains(header, PhrasePath)

\* json.Unmarshal(body, &result): the bytes must be one JSON document
Unmarshal(body) ==
  IF Len(body) = 1 /\ body[1].t = "json"
    THEN [ok |-> TRUE,  result |-> body[1].doc]
    ELSE [ok |-> FALSE, result |-> NoDoc]

\* DisplayText first, else NBest[0].Display
FinalText(f) ==
  IF f.display # "" THEN f.display
  ELSE IF Len(f.nbest) > 0 /\ f.nbest[1] # "" THEN f.nbest[1]
  ELSE NoText

\* (variant) handleTextMessage without the check of RecognitionStatus
HandleTextMessageAnyStatus(f) ==
  LET parts == Split(f.data) IN
  IF Len(parts) < 2 THEN NoText
  ELSE IF ~ContainsPhrasePath(parts[1]) THEN NoText
  ELSE IF ~Unmarshal(parts[2]).ok THEN NoText
  ELSE FinalText(Unmarshal(parts[2]).result)

\* The text handleTextMessage hands to onRecognized, NoText when it hands none.
HandleTextMessage(f) ==
  LET parts == Split(f.data) IN
  IF Len(parts) < 2 THEN NoText
  ELSE IF ~ContainsPhrasePath(parts[1]) THEN NoText
  ELSE IF ~Unmarshal(parts[2]).ok THEN NoText
  ELSE IF Unmarshal(parts[2]).result.status = "Success"
         THEN FinalText(Unmarshal(parts[2]).result)
  ELSE NoText

\* the switch on messageType in handleWebSocketMessages
Dispatch(f) ==
  IF f.type = "text" THEN HandleTextMessage(f) ELSE NoText

\* frames the service sends
Docs ==
  [status : {"Success", "NoMatch"}, display : {"", "hello"},
   nbest : {<<>>, <<"">>, <<"alt">>}]

Headers ==
  { <<Tok("Path"), Tok(":"), Tok("speech.phrase")>>,
    <<Tok("X-RequestId"), Tok(":"), Tok("1"), CRLF,
      Tok("Path"), Tok(":"), Tok("speech.phrase")>>,
    <<Tok("Path"), Tok(":"), Tok("speech.hypothesis")>>,
    <<Tok("Path"), Tok(":"), Tok("turn.end")>>,
    <<Tok("Path"), Tok(":"), Tok("speech.phrase"), Tok(".partial")>>,
    <<Tok("X-"), Tok("Path"), Tok(":"), Tok("speech.phrase")>>,
    <<Tok("Path"), Tok(":"), Tok("turn.end"), CRLF,
      Tok("X-Note"), Tok(":"), Tok("Path"), Tok(":"), Tok("speech.phrase")>> }

Bodies ==
  {<<Json(d)>> : d \in Docs}
    \cup {<<JsonHead(d), CRLFCRLF, JsonTail(d)>> : d \in Docs}
    \cup {<<Json(d), CRLFCRLF, Junk>> : d \in Docs}
    \cup {<<Junk>>, <<>>}

DemuxFrames ==
  {TextFrame(h, b) : h \in Headers, b \in Bodies}
    \cup {[type |-> "text", data |-> h] : h \in Headers}
    \cup {[type |-> "binary", data |-> b] : b \in {<<Junk>>, <<>>}}

\* the frames of a run that is not about the demultiplexer
InboundFrames ==
  { TextFrame(<<Tok("Path"), Tok(":"), Tok("speech.phrase")>>,
              <<Json([status |-> "Success", display |-> "hello", nbest |-> <<>>])>>),
    TextFrame(<<Tok("Path"), Tok(":"), Tok("speech.hypothesis")>>,
              <<Json([status |-> "Success", display |-> "hello", nbest |-> <<>>])>>),
    [type |-> "binary", data |-> <<Junk>>] }

\* ---------------------------------------------- handleWebSocketMessages
\* "for a.isConnected"
RecvLoop(s) ==
  /\ At(<<"r", s>>, "loop")
  /\ Goto(<<"r", s>>, IF isConnected THEN "call" ELSE "done")
  /\ inbound' = [inbound EXCEPT ![s] = NoFrame]
  /\ UNCHANGED <<fields, flushL, rconn, rerr, rtext, pbuf, env, obs>>

\* a.conn.ReadMessage(): the handle is read and the call blocks on it
RecvCall(s) ==
  /\ At(<<"r", s>>, "call")
  /\ IF conn = NoConn
       THEN /\ crashed' = TRUE            \* nil *websocket.Conn dereferenced
            /\ UNCHANGED <<control, rconn>>
       ELSE /\ rconn' = [rconn EXCEPT ![s] = conn]
            /\ Goto(<<"r", s>>, "read")
            /\ UNCHANGED crashed
  /\ UNCHANGED <<fields, flushL, rerr, rtext, inbound, pbuf, env, errors, teardowns>>

\* ReadMessage returns a frame and it is dispatched: a final phrase with
\* text enters onRecognized(text), anything else goes round the loop
RecvMessageFrom(s, frames) ==
  /\ At(<<"r", s>>, "read")
  /\ rconn[s] \in open
  /\ \E f \in frames :
       /\ inbound' = [inbound EXCEPT ![s] = f]
       /\ rtext' = [rtext EXCEPT ![s] = Dispatch(f)]
       /\ Goto(<<"r", s>>, IF Dispatch(f) # NoText THEN "callback" ELSE "loop")
  /\ rconn' = [rconn EXCEPT ![s] = NoConn]
  /\ UNCHANGED <<fields, flushL, rerr, pbuf, env, obs>>

RecvMessage(s) == RecvMessageFrom(s, InboundFrames)

DemuxMessage(s) == RecvMessageFrom(s, DemuxFrames)

\* onRecognized returns
RecvCallbackDone(s) ==
  /\ At(<<"r", s>>, "callback")
  /\ rtext' = [rtext EXCEPT ![s] = NoText]
  /\ inbound' = [inbound EXCEPT ![s] = NoFrame]
  /\ Goto(<<"r", s>>, "loop")
  /\ UNCHANGED <<fields, flushL, rconn, rerr, pbuf, env, obs>>

\* ReadMessage returns an error: the connection was closed under the read by
\* this process (local), or the peer closed it or the network failed.  A close
\* frame from the peer is a *CloseError with code 1000 or 1001 ("close"),
\* anything else is "other".
RecvError(s) ==
  /\ At(<<"r", s>>, "read")
  /\ IF rconn[s] \in open
       THEN \E k \in {"close", "other"} :
              rerr' = [rerr EXCEPT ![s] = [kind |-> k, local |-> FALSE]]
       ELSE rerr' = [rerr EXCEPT ![s] = [kind |-> "other", local |-> TRUE]]
  /\ rconn' = [rconn EXCEPT ![s] = NoConn]
  /\ Goto(<<"r", s>>, "failed")
  /\ UNCHANGED <<fields, flushL, rtext, inbound, pbuf, env, obs>>

\* (variant) the read error is reported whatever isShuttingDown says
ReportsReadErrorUnflagged(err) == err.kind # "close"

\* "if !a.isShuttingDown && !websocket.IsCloseError(err, 1000, 1001)"
ReportsReadError(err) == ~isShuttingDown /\ err.kind # "close"

\* ... then onError(err); break
RecvFailed(s) ==
  /\ At(<<"r", s>>, "failed")
  /\ errors' = IF ReportsReadError(rerr[s])
                 THEN Reported(<<"r", s>>, "read", rerr[s].local)
                 ELSE errors
  /\ rerr' = [rerr EXCEPT ![s] = NoError]
  /\ Goto(<<"r", s>>, "done")
  /\ UNCHANGED <<fields, flushL, rconn, rtext, inbound, pbuf, env, teardowns, crashed>>

\* ------------------------------------------------------ TestConnection
\* connectWebSocket without the lock: the dial ...
TestDial(t) ==
  /\ t = Background /\ At(t, "idle")
  /\ dialled < MaxDials
  /\ \/ /\ ConnectDialOk
        /\ Enter(t, "test", "test_config")
        /\ UNCHANGED <<mutex, stream, audioBuffer, flushL, recvL, pbuf, audio,
                       sessions, obs>>
     \/ /\ Return(t, "test", "err_test")       \* dial failed
        /\ UNCHANGED <<fields, flushL, recvL, pbuf, env, obs>>

\* ... and sendSpeechConfig; "if err != nil { return ... }"
TestConfig(t) ==
  /\ At(t, "test_config")
  /\ IF conn = NoConn
       THEN /\ crashed' = TRUE            \* nil *websocket.Conn dereferenced
            /\ UNCHANGED <<control, wire>>
       ELSE /\ wire' = Written(conn, ConfigFrame)
            /\ (Goto(t, "test_disc") \/ Return(t, "test", "err_test"))
            /\ UNCHANGED crashed
  /\ UNCHANGED <<fields, flushL, recvL, pbuf, dialled, open, audio, sessions,
                 errors, teardowns>>

\* a.disconnectWebSocket(): close and clear the handle ...
TestDisconnect(t) ==
  /\ At(t, "test_disc")
  /\ DisconnectClose
  /\ Goto(t, "test_flag")
  /\ UNCHANGED <<flags, mutex, stream, audioBuffer, ids, flushL, recvL, pbuf,
                 audio, sessions, obs>>

\* ... a.isConnected = false; return nil
TestDisconnected(t) ==
  /\ At(t, "test_flag")
  /\ isConnected' = FALSE
  /\ Return(t, "test", "ok")
  /\ UNCHANGED <<conn, isListening, isShuttingDown, mutex, stream, audioBuffer, ids,
                 flushL, recvL, pbuf, env, obs>>

\* --------------------------------------------------------------- Close
\* "if a.isListening { a.StopContinuousRecognition() }", read without the lock
Close(t) ==
  /\ t = Background /\ At(t, "idle")
  /\ paReady
  /\ Enter(t, "close", IF isListening THEN "close_stop" ELSE "close_disc")
  /\ UNCHANGED <<fields, flushL, recvL, pbuf, env, obs>>

CloseStop(t) ==
  /\ At(t, "close_stop")
  /\ StopBody(t, "close")

\* a.disconnectWebSocket(): close and clear the handle ...
CloseDisconnect(t) ==
  /\ At(t, "close_disc")
  /\ DisconnectClose
  /\ Goto(t, "close_flag")
  /\ UNCHANGED <<flags, mutex, stream, audioBuffer, ids, flushL, recvL, pbuf,
                 audio, sessions, obs>>

\* ... a.isConnected = false; portaudio.Terminate() closes every open stream
CloseTerminate(t) ==
  /\ At(t, "close_flag")
  /\ pc[AudioCb] = "idle"
  /\ isConnected' = FALSE
  /\ paReady' = FALSE
  /\ streamOpen' = {} /\ streamOn' = {}
  /\ Return(t, "close", "ok")
  /\ UNCHANGED <<conn, isListening, isShuttingDown, mutex, stream, audioBuffer, ids,
                 flushL, recvL, pbuf, network, samples, sessions, obs>>

\* ------------------------------------------------------- specification
StartStep ==
  \/ Start(Hotkey)
  \/ StartConfig(Hotkey)
  \/ StartCapture(Hotkey)
  \/ StartRollback(Hotkey)
  \/ StartFailed(Hotkey)
  \/ StartListen(Hotkey)

StopStep ==
  \/ \E t \in Callers : Stop(t)
  \/ \E t \in Callers \cup FlushTasks : StopEndOfAudio(t)
  \/ \E t \in Callers \cup FlushTasks : StopCleanup(t)
  \/ \E t \in Callers \cup FlushTasks : StopDisconnect(t)
  \/ \E t \in Callers \cup FlushTasks : StopDisconnected(t)
  \/ \E t \in Callers \cup FlushTasks : StopFinish(t)
  \/ \E t \in Callers : Returns(t)

AudioStep ==
  \/ ProcessAudio
  \/ ProcessAudioAppend

FlushStep ==
  \/ \E s \in Sessions : FlushTick(s)
  \/ \E s \in Sessions : FlushSend(s)
  \/ \E s \in Sessions : FlushReset(s)

WatchdogStep == \E s \in Sessions : Watchdog(s)

RecvStep ==
  \/ \E s \in Sessions : RecvLoop(s)
  \/ \E s \in Sessions : RecvCall(s)
  \/ \E s \in Sessions : RecvMessage(s)
  \/ \E s \in Sessions : RecvCallbackDone(s)
  \/ \E s \in Sessions : RecvError(s)
  \/ \E s \in Sessions : RecvFailed(s)

TestStep ==
  \/ TestDial(Background)
  \/ TestConfig(Background)
  \/ TestDisconnect(Background)
  \/ TestDisconnected(Background)

CloseStep ==
  \/ Close(Background)
  \/ CloseStop(Background)
  \/ CloseDisconnect(Background)
  \/ CloseTerminate(Background)

\* The streaming engine: sessions started and stopped by two callers, with
\* the flush/watchdog task, the receive loop and the audio callback.
Next ==
  \/ StartStep
  \/ StopStep
  \/ AudioStep
  \/ FlushStep
  \/ WatchdogStep
  \/ RecvStep

Spec == Init /\ [][Next]_vars

\* The engine with the two unlocked operations, TestConnection and Close;
\* the audio callback delivers ApiSamples buffers.
ApiAudioStep ==
  \/ ProcessAudioWithin(ApiSamples)
  \/ ProcessAudioAppend

NextApi ==
  \/ StartStep
  \/ StopStep
  \/ ApiAudioStep
  \/ FlushStep
  \/ WatchdogStep
  \/ RecvStep
  \/ TestStep
  \/ CloseStep

SpecApi == Init /\ [][NextApi]_vars

\* ------------------------------------------------- the flush-and-stop run
\* One caller starts a session, the audio callback delivers ScenarioTicks
\* buffers of FramesPerBuffer samples, and the caller stops once that many
\* flush ticks have written their frame and no tick is under way.
AudioWritten(c) ==
  Cardinality({i \in 1..Len(wire[c]) : wire[c][i].kind = "audio" /\ wire[c][i].data # <<>>})

ScenarioStop ==
  /\ isListening /\ conn # NoConn
  /\ AudioWritten(conn) = ScenarioTicks
  /\ \A s \in Sessions : pc[<<"f", s>>] \in {"unborn", "wait", "done"}
  /\ Stop(Hotkey)

ScenarioStopStep ==
  \/ ScenarioStop
  \/ StopEndOfAudio(Hotkey)
  \/ StopCleanup(Hotkey)
  \/ StopDisconnect(Hotkey)
  \/ StopDisconnected(Hotkey)
  \/ StopFinish(Hotkey)
  \/ Returns(Hotkey)

ScenarioAudioStep ==
  \/ ProcessAudioWithin(ScenarioTicks)
  \/ ProcessAudioAppend

NextScenario ==
  \/ StartStep
  \/ ScenarioStopStep
  \/ ScenarioAudioStep
  \/ FlushStep
  \/ RecvStep

SpecScenario == Init /\ [][NextScenario]_vars

\* ------------------------------------------------- the demultiplexer run
\* One caller starts a session and the receive loop reads frames of every
\* shape in DemuxFrames.
DemuxStep ==
  \/ \E s \in Sessions : RecvLoop(s)
  \/ \E s \in Sessions : RecvCall(s)
  \/ \E s \in Sessions : DemuxMessage(s)
  \/ \E s \in Sessions : RecvCallbackDone(s)
  \/ \E s \in Sessions : RecvError(s)
  \/ \E s \in Sessions : RecvFailed(s)

NextDemux ==
  \/ StartStep
  \/ Returns(Hotkey)
  \/ DemuxStep

SpecDemux == Init /\ [][NextDemux]_vars

\* ------------------------------------------------------- the restart run
\* The hotkey goroutine starts a session, stops it and starts the next one,
\* while the callback delivers ApiSamples buffers and the flush tasks run.
RestartStartStep ==
  \/ StartWithin(Hotkey, RestartSessions)
  \/ StartConfig(Hotkey)
  \/ StartCapture(Hotkey)
  \/ StartRollback(Hotkey)
  \/ StartFailed(Hotkey)
  \/ StartListen(Hotkey)

RestartStopStep ==
  \/ Stop(Hotkey)
  \/ StopEndOfAudio(Hotkey)
  \/ StopCleanup(Hotkey)
  \/ StopDisconnect(Hotkey)
  \/ StopDisconnected(Hotkey)
  \/ StopFinish(Hotkey)
  \/ Returns(Hotkey)

NextRestart ==
  \/ RestartStartStep
  \/ RestartStopStep
  \/ ApiAudioStep
  \/ FlushStep

SpecRestart == Init /\ [][NextRestart]_vars

\* the next statement of thread t inside the locked body of Start or Stop
HolderStep(t) ==
  \/ StartConfig(t) \/ StartCapture(t) \/ StartRollback(t) \/ StartFailed(t)
  \/ StartListen(t)
  \/ StopEndOfAudio(t) \/ StopCleanup(t) \/ StopDisconnect(t)
  \/ StopDisconnected(t) \/ StopFinish(t)

\* ---------------------------------------------------- main: onF12Pressed
\* A press of F12: "if isRecording { ... Stop ... } else { ... Start ... }"
F12Press ==
  /\ hpc = "idle" /\ At(Hotkey, "idle")
  /\ hpc' = IF isRecording THEN "stop" ELSE "start"
  /\ requests' = <<>>
  /\ UNCHANGED <<fields, control, chunk, framer, isRecording, recvL, pbuf, env, obs>>

\* the engine call the handler has arrived at: StopContinuousRecognition in
\* the recording branch, StartContinuousRecognition in the other branch and
\* again after the if statement
F12Call ==
  /\ hpc \in {"stop", "start", "again"}
  /\ IF hpc = "stop" THEN Stop(Hotkey) ELSE StartWithin(Hotkey, RestartSessions)

\* the handler takes the call's result: "isRecording = false" after a stop,
\* "isRecording = true" after a start that returned nil; after the last call
\* the handler returns
F12Returned ==
  /\ hpc \in {"stop", "start", "again"} /\ At(Hotkey, "returned")
  /\ requests' = Append(requests, op[Hotkey])
  /\ isRecording' = CASE hpc = "stop" -> FALSE
                      [] ret[Hotkey] \in {"ok", "ok_ignored"} -> TRUE
                      [] OTHER -> isRecording
  /\ hpc' = IF hpc = "again" THEN "idle" ELSE "again"
  /\ pc'  = [pc EXCEPT ![Hotkey] = "idle"]
  /\ op'  = [op EXCEPT ![Hotkey] = "none"]
  /\ ret' = [ret EXCEPT ![Hotkey] = "none"]
  /\ UNCHANGED <<fields, chunk, framer, recvL, pbuf, env, obs>>

\* The hotkey goroutine runs onF12Pressed for every press, beside the
\* callback and the flush tasks.
NextF12 ==
  \/ F12Press
  \/ F12Call
  \/ HolderStep(Hotkey)
  \/ F12Returned
  \/ ApiAudioStep
  \/ FlushStep

SpecF12 == Init /\ [][NextF12]_vars

\* ------------------------------------------------- the run of the tasks
\* The restart run with everything the tasks of a session do: the watchdog
\* branch of handleAudioStreaming with the Stop it calls, and the receive
\* loops.
WatchdogStopStep == \E t \in FlushTasks : HolderStep(t)

NextTasks ==
  \/ RestartStartStep
  \/ RestartStopStep
  \/ WatchdogStep
  \/ WatchdogStopStep
  \/ ApiAudioStep
  \/ FlushStep
  \/ RecvStep

SpecTasks == Init /\ [][NextTasks]_vars

\* ------------------------------------------------------ the fair engine
\* The engine run with its goroutines scheduled: the ticker of a flush task
\* keeps firing and its iteration completes; the receive loop takes its
\* next statement, a callback returns, and a read on a closed connection
\* returns.  Nothing obliges the service to send a frame.
FlushRuns(s) == FlushTick(s) \/ FlushSend(s) \/ FlushReset(s)

RecvRuns(s) ==
  RecvLoop(s) \/ RecvCall(s) \/ RecvCallbackDone(s) \/ RecvError(s) \/ RecvFailed(s)

SpecFair ==
  /\ Spec
  /\ \A s \in Sessions : WF_vars(FlushRuns(s)) /\ WF_vars(RecvRuns(s))

\* ================================================================ claims
TaskPcs == [t \in FlushTasks \cup RecvTasks |-> pc[t]]

IsAudioData(f)  == f.kind = "audio" /\ f.data # <<>>
IsEndOfAudio(f) == f.kind = "audio" /\ f.data = <<>>
IsConfig(f)     == f.kind = "config"
EndOfAudioCount(c) == Cardinality({i \in 1..Len(wire[c]) : IsEndOfAudio(wire[c][i])})

\* t is a caller whose call of operation o has just returned r
Returned(t, o, r) == pc[t] = "returned" /\ op[t] = o /\ ret[t] = r

\* the step in which caller t invokes operation o
Calls(t, o) == pc[t] = "idle" /\ op'[t] = o

\* C1: a StartContinuousRecognition call made while the engine is listening
\* returns success and changes nothing: requestId, connectionId and the
\* connection handle stay as they were, nothing is dialled, no frame is
\* written, and no flush or receive task is started.
C1_StartWhileListening ==
  [][\A t \in Callers :
       (Calls(t, "start") /\ isListening) =>
         /\ pc'[t] = "returned" /\ ret'[t] \in {"ok", "ok_ignored"}
         /\ UNCHANGED <<requestId, connectionId, conn, dialled, open, wire>>
         /\ UNCHANGED <<sessions, TaskPcs>>]_vars

C1_Witness ==
  /\ Returned(Hotkey, "start", "ok_ignored")
  /\ isListening /\ sessions = 1 /\ conn = 1 /\ conn \in open

\* C2: StopContinuousRecognition called while isListening is false returns
\* success, invokes no callback, writes no frame, and leaves conn, isConnected,
\* isListening, isShuttingDown, stream and audioBuffer unchanged.
C2_StopWhileIdle ==
  [][\A t \in Callers :
       (Calls(t, "stop") /\ ~isListening) =>
         /\ pc'[t] = "returned" /\ ret'[t] \in {"ok", "ok_ignored"}
         /\ UNCHANGED <<errors, TaskPcs, wire>>
         /\ UNCHANGED <<conn, isConnected, isListening, isShuttingDown,
                        stream, audioBuffer>>]_vars

C2_Witness ==
  /\ Returned(Background, "stop", "ok_ignored")
  /\ ~isListening /\ ~isShuttingDown /\ sessions = 0

\* C3: of the stop requests made on one listening session (caller stops and
\* the watchdog), exactly one performs the teardown, which writes one
\* end-of-audio frame, releases the stream and closes the connection; every
\* other request finds the engine not listening and writes and closes nothing.
TornDownOnce ==
  /\ \A s \in Sessions : Len(teardowns[s]) <= 1
  /\ (sessions > 0 /\ mutex = None) =>
        Len(teardowns[sessions]) = (IF isListening THEN 0 ELSE 1)

TeardownStep ==
  (isListening /\ ~isListening') =>
     /\ EndOfAudioCount(connectionId)' = 1
     /\ connectionId \notin open' /\ conn' = NoConn
     /\ stream' = NoStream /\ streamOpen' = {} /\ streamOn' = {}

IgnoredStopStep ==
  /\ \A t \in Callers :
       (Calls(t, "stop") /\ ~isListening) =>
         /\ ret'[t] \in {"ok", "ok_ignored"}
         /\ UNCHANGED <<wire, open, conn, stream, streamOpen, streamOn, teardowns>>
  /\ \A s \in Sessions :
       (pc[<<"f", s>>] = "wait" /\ pc'[<<"f", s>>] = "done") =>
         UNCHANGED <<wire, open, conn, stream, streamOpen, streamOn, teardowns>>

C3_ExactlyOneTeardown ==
  []TornDownOnce /\ [][TeardownStep /\ IgnoredStopStep]_vars

C3_Witness ==
  /\ Returned(Hotkey, "stop", "ok")
  /\ Returned(Background, "stop", "ok_ignored")
  /\ pc[<<"f", 1>>] = "done"
  /\ teardowns[1] = <<"stop">> /\ ~isListening /\ open = {}

\* C4: once a task of a listening session has reported a fatal send or read
\* failure and has finished, the stop teardown of that session has been
\* triggered: the engine is not left listening without a caller's help.
FatalFailureOf(s) ==
  \E e \in errors : e.by \in {<<"f", s>>, <<"r", s>>} /\ ~e.local /\ pc[e.by] = "done"

C4_FailureTriggersStop ==
  \A s \in Sessions : FatalFailureOf(s) => teardowns[s] # <<>>

\* C5: when the watchdog performs the teardown of a session, the session is
\* torn down once and the receive loop, seeing the connection closed by that
\* teardown, does not invoke onError.
ClosedConnectionReported(s) ==
  \E e \in errors : e.by = <<"r", s>> /\ e.local

C5_WatchdogStopIsSilent ==
  \A s \in Sessions :
     (teardowns[s] # <<>> /\ teardowns[s][1] = "watchdog") =>
        Len(teardowns[s]) = 1 /\ ~ClosedConnectionReported(s)

\* C6: when a caller's StopContinuousRecognition performs the teardown of a
\* session, the receive loop, seeing the connection closed by that teardown,
\* exits without invoking onError.
C6_CallerStopIsSilent ==
  \A s \in Sessions :
     (teardowns[s] # <<>> /\ teardowns[s][1] = "stop") => ~ClosedConnectionReported(s)

\* C7: the step in which the receive loop of session s handles a read error
HandlesReadError(s) == pc[<<"r", s>>] = "failed" /\ pc'[<<"r", s>>] = "done"

OnErrorCalls == Cardinality(errors)

FlushedThenStopped(c) ==
  /\ Len(wire[c]) = ScenarioTicks + 2
  /\ IsConfig(wire[c][1])
  /\ \A i \in 2..(ScenarioTicks + 1) : IsAudioData(wire[c][i])
  /\ IsEndOfAudio(wire[c][ScenarioTicks + 2])

C8_ThreeFramesThenEndOfAudio ==
  \A c \in 1..MaxDials :
     (c <= dialled /\ c \notin open /\ AudioWritten(c) = ScenarioTicks) =>
        FlushedThenStopped(c)

C8_Witness ==
  /\ Returned(Hotkey, "stop", "ok")
  /\ dialled = 1 /\ open = {} /\ samples = ScenarioTicks
  /\ FlushedThenStopped(1)

\* C9: a StartContinuousRecognition that fails to connect (the dial fails, or
\* the configuration frame cannot be sent) returns leaving the engine idle:
\* isListening and isConnected false and no open connection handle.
C9_ConnectFailureLeavesIdle ==
  \A t \in Callers :
     Returned(t, "start", "err_connect") =>
        ~isListening /\ ~isConnected /\ conn = NoConn /\ open = {}

\* C10: a StartContinuousRecognition that fails in startAudioCapture returns
\* with the connection it had opened closed and any stream released:
\* isListening and isConnected false, conn and stream nil, and no flush or
\* receive task started.
C10_CaptureFailureRollsBack ==
  [][\A t \in Callers :
       (pc[t] # "returned" /\ Returned(t, "start", "err_capture")') =>
         /\ ~isListening' /\ ~isConnected'
         /\ conn' = NoConn /\ stream' = NoStream
         /\ connectionId \notin open' /\ streamOpen' = {} /\ streamOn' = {}
         /\ UNCHANGED <<sessions, TaskPcs>>]_vars

C10_Witness ==
  /\ Returned(Hotkey, "start", "err_capture")
  /\ dialled = 1 /\ wire[1] = <<ConfigFrame>> /\ open = {} /\ sessions = 0

\* C11: whenever TestConnection has returned, with an error or with nil, and
\* no Start or Stop is under way and no session is listening, the engine holds
\* no connection: conn is nil and isConnected is false.
C11_TestConnectionHoldsNothing ==
  (/\ pc[Background] = "returned" /\ op[Background] = "test"
   /\ pc[Hotkey] = "idle" /\ ~isListening)
     => conn = NoConn /\ ~isConnected

\* C12: at most one dialled connection is open at any time, counting the one
\* the engine holds and any it has dropped without closing.
C12_AtMostOneOpenConnection == Cardinality(open) <= 1

\* C13: the mutex is never held by a thread that is about to execute a
\* blocking network call (WriteMessage, connection Close) or a blocking audio
\* call (open, start, stop or close of the stream).
AtBlockingCall(t) ==
  pc[t] \in {"start_config", "start_capture", "start_rollback",
             "stop_eoa", "stop_cleanup", "stop_disc"}

C13_NoBlockingCallUnderMutex ==
  \A t \in Threads : mutex = t => ~AtBlockingCall(t)

\* C14: every step that assigns or clears conn or isConnected is taken by a
\* thread that holds the mutex (it held it before the step or acquires it in
\* the step).
C14_ConnectionWrittenUnderMutex ==
  [][(conn' # conn \/ isConnected' # isConnected) =>
        \E t \in Threads : pc'[t] # pc[t] /\ (mutex = t \/ mutex' = t)]_vars

\* ====================================================== the batch Recorder
\* Recorder of package audio.  StartRecording and StopRecording run their
\* whole body with r.mutex held (Lock, defer Unlock), and so does
\* IsRecording: each is one step.  monitorDuration holds no lock between its
\* sleep, its IsRecording() and its StopRecording(): three steps.  The clock
\* counts ticks; a monitor wakes once MaxRecordingDuration has passed since
\* it was started.
engine == <<fields, control, chunk, fin, fout, handler, recvL, pbuf, env, obs>>
notBatch == <<engine, poller, claude>>

Result(t, o, e) == rret' = [rret EXCEPT ![t] = [op |-> o, err |-> e]]

\* "if r.isRecording { return fmt.Errorf("already recording") }"
StartAlreadyRecording(t) ==
  /\ Result(t, "start", "already recording")
  /\ UNCHANGED <<recorder, monitors, attempts, stopped, completed, recErrors>>

\* the body of StartRecording after the check: the temp file is created, the
\* header written, the stream opened and started, and monitorDuration
\* launched; each of the four calls can fail
StartRecordingBody(t) ==
  /\ attempts < MaxRecordings
  /\ attempts' = attempts + 1
  /\ \/ /\ recorder' = [recorder EXCEPT !.tempFilePath = attempts']
        /\ Result(t, "start", "failed to create temp file")
        /\ UNCHANGED monitors
     \/ /\ recorder' = [recorder EXCEPT !.tempFilePath = attempts',
                                        !.file = attempts']
        /\ \E e \in {"failed to write WAV header", "failed to open audio stream"} :
             Result(t, "start", e)
        /\ UNCHANGED monitors
     \/ /\ recorder' = [recorder EXCEPT !.tempFilePath = attempts',
                                        !.file = Nil, !.stream = Nil,
                                        !.isRecording = FALSE,
                                        !.startTime = now]
        /\ Result(t, "start", "failed to start audio stream")
        /\ UNCHANGED monitors
     \/ /\ recorder' = [recorder EXCEPT !.tempFilePath = attempts',
                                        !.file = attempts',
                                        !.stream = attempts',
                                        !.isRecording = TRUE,
                                        !.startTime = now]
        /\ monitors' = [monitors EXCEPT ![attempts'] = [pc |-> "sleep", since |-> now, saw |-> Nil]]
        /\ Result(t, "start", "nil")
  /\ UNCHANGED <<stopped, completed, recErrors>>

StartRecording(t) ==
  /\ calls < MaxCalls
  /\ calls' = calls + 1
  /\ IF recorder.isRecording THEN StartAlreadyRecording(t)
                             ELSE StartRecordingBody(t)
  /\ UNCHANGED <<now, notBatch>>

\* (variant) a stop of a recorder that is not recording reports completion
StopNotRecordingCompletes(t) ==
  /\ Result(t, "stop", "not currently recording")
  /\ completed' = Append(completed, [path |-> recorder.tempFilePath, duration |-> 0])
  /\ UNCHANGED <<recorder, stopped>>

\* "if !r.isRecording { return fmt.Errorf("not currently recording") }"
StopNotRecording(t) ==
  /\ Result(t, "stop", "not currently recording")
  /\ UNCHANGED <<recorder, stopped, completed>>

\* duration := time.Since(r.startTime); cleanup(); finalizeWAVFile(); then
\* "go r.onComplete(r.tempFilePath, duration)" unless finalizing failed
StopRecordingBody(t) ==
  /\ recorder' = [recorder EXCEPT !.stream = Nil, !.file = Nil,
                                  !.isRecording = FALSE]
  /\ stopped' = [stopped EXCEPT ![recorder.tempFilePath] =
                   [by |-> t, lasted |-> now - recorder.startTime]]
  /\ \/ /\ Result(t, "stop", "failed to finalize WAV file")
        /\ UNCHANGED completed
     \/ /\ Result(t, "stop", "nil")
        /\ completed' = Append(completed, [path |-> recorder.tempFilePath,
                                           duration |-> now - recorder.startTime])

StopRecordingBy(t) ==
  IF ~recorder.isRecording THEN StopNotRecording(t) ELSE StopRecordingBody(t)

StopRecording(t) ==
  /\ calls < MaxCalls
  /\ calls' = calls + 1
  /\ StopRecordingBy(t)
  /\ UNCHANGED <<now, monitors, attempts, recErrors, notBatch>>

\* time.Sleep(MaxRecordingDuration) returns
MonitorWake(k) ==
  /\ monitors[k].pc = "sleep"
  /\ now >= monitors[k].since + MaxRecordingDuration
  /\ monitors' = [monitors EXCEPT ![k].pc = "check"]
  /\ UNCHANGED <<recorder, now, rret, calls, attempts, stopped, completed,
                 recErrors, notBatch>>

\* "if r.IsRecording()"; saw remembers which recording was under way
MonitorCheck(k) ==
  /\ monitors[k].pc = "check"
  /\ monitors' = [monitors EXCEPT ![k] =
                    IF recorder.isRecording
                      THEN [@ EXCEPT !.pc = "stop", !.saw = recorder.tempFilePath]
                      ELSE [@ EXCEPT !.pc = "done"]]
  /\ UNCHANGED <<recorder, now, rret, calls, attempts, stopped, completed,
                 recErrors, notBatch>>

\* err := r.StopRecording(); "if err != nil && r.onError != nil" onError
MonitorStop(k) ==
  /\ monitors[k].pc = "stop"
  /\ StopRecordingBy(Monitor(k))
  /\ recErrors' = IF rret'[Monitor(k)].err # "nil"
                    THEN recErrors \cup {[by |-> k, saw |-> monitors[k].saw,
                                         cause |-> rret'[Monitor(k)].err]}
                    ELSE recErrors
  /\ monitors' = [monitors EXCEPT ![k].pc = "done"]
  /\ UNCHANGED <<now, calls, attempts, notBatch>>

\* the clock
Tick ==
  /\ now < MaxTime
  /\ now' = now + 1
  /\ UNCHANGED <<recorder, monitors, rret, calls, attempts, stopped, completed,
                 recErrors, notBatch>>

MonitorStep ==
  \/ \E k \in Recordings : MonitorWake(k)
  \/ \E k \in Recordings : MonitorCheck(k)
  \/ \E k \in Recordings : MonitorStop(k)

NextRecorder ==
  \/ StartRecording(User)
  \/ StopRecording(User)
  \/ MonitorStep
  \/ Tick

SpecRecorder == Init /\ [][NextRecorder]_vars

\* ------------------------------------------------------------------ C36
\* the step is a call of StartRecording by the user, of StopRecording by t
StartCalled == calls' = calls + 1 /\ rret'[User].op = "start"

StopCalled(t) ==
  \/ t = User /\ calls' = calls + 1 /\ rret'[User].op = "stop"
  \/ \E k \in Recordings :
       t = Monitor(k) /\ monitors[k].pc = "stop" /\ monitors'[k].pc = "done"

\* C36: StartRecording while recording returns "already recording" and
\* StopRecording while not recording returns "not currently recording"; both
\* leave the recorder's fields unchanged and invoke no onComplete; every
\* StopRecording that returns nil invokes onComplete exactly once, for the
\* recording it stopped.
C36_RecorderGuards ==
  [][/\ (StartCalled /\ recorder.isRecording) =>
           /\ rret'[User].err = "already recording"
           /\ recorder' = recorder /\ completed' = completed
     /\ \A t \in RecCallers :
          /\ (StopCalled(t) /\ ~recorder.isRecording) =>
                /\ rret'[t].err = "not currently recording"
                /\ recorder' = recorder /\ completed' = completed
          /\ (StopCalled(t) /\ rret'[t].err = "nil") =>
                /\ Len(completed') = Len(completed) + 1
                /\ completed'[Len(completed')].path = recorder.tempFilePath]_vars

C36_Witness ==
  /\ rret[User] = [op |-> "start", err |-> "already recording"]
  /\ recorder.isRecording
  /\ Len(completed) = 1

\* ------------------------------------------------------------------ C37
\* C37: a recording is force-stopped by a duration monitor only if it is the
\* monitor started for that recording and the recording has lasted
\* MaxRecordingDuration.
C37_MonitorStopsOwnRecording ==
  \A j, k \in Recordings :
    stopped[j].by = Monitor(k) =>
      k = j /\ stopped[j].lasted >= MaxRecordingDuration

\* ------------------------------------------------------------------ C38
\* C38: the duration monitor reports no error for a recording the user
\* stopped: no onError call says that the recording the monitor saw under
\* way was not recording any more when that recording was stopped by the
\* user.
C38_NoErrorForUserStop ==
  \A e \in recErrors :
    e.cause = "not currently recording" => stopped[e.saw].by # User

\* ===================================================== the hotkey Listener
\* Listener of package hotkey.  Start sets running and launches the polling
\* goroutine; Stop clears running and sends on stopChan, which nothing ever
\* receives from.  running is written by Stop and read by the goroutine
\* with no synchronisation: the read may return the value before the write.
notPoller == <<engine, batch, claude>>

\* l.running = true; go func() { ... }()
ListenerStart ==
  /\ lpc = "unborn"
  /\ running' = TRUE
  /\ lpc' = "test"
  /\ UNCHANGED <<stopChan, lastF12State, lastCtrlQState, lstop, stops, callbacks,
                 late, notPoller>>

\* "for l.running"
PollTest ==
  /\ lpc = "test"
  /\ \E seen \in {running, TRUE} : lpc' = IF seen THEN "f12" ELSE "done"
  /\ UNCHANGED <<running, stopChan, lastF12State, lastCtrlQState, lstop, stops,
                 callbacks, late, notPoller>>

\* a callback is invoked by the polling goroutine
Invoked ==
  /\ callbacks < MaxPresses
  /\ callbacks' = callbacks + 1
  /\ late' = (late \/ stops > 0)

\* currentF12State := isKeyPressed(VK_F12); on a rising edge onF12Pressed()
PollF12 ==
  /\ lpc = "f12"
  /\ \E currentF12State \in BOOLEAN :
       /\ IF currentF12State /\ ~lastF12State
            THEN Invoked
            ELSE UNCHANGED <<callbacks, late>>
       /\ lastF12State' = currentF12State
  /\ lpc' = "ctrlq"
  /\ UNCHANGED <<running, stopChan, lastCtrlQState, lstop, stops, notPoller>>

\* the same for Ctrl+Q and onCtrlQPressed(), then time.Sleep(50 ms)
PollCtrlQ ==
  /\ lpc = "ctrlq"
  /\ \E currentCtrlQState \in BOOLEAN :
       /\ IF currentCtrlQState /\ ~lastCtrlQState
            THEN Invoked
            ELSE UNCHANGED <<callbacks, late>>
       /\ lastCtrlQState' = currentCtrlQState
  /\ lpc' = "test"
  /\ UNCHANGED <<running, stopChan, lastF12State, lstop, stops, notPoller>>

\* Stop: l.running = false
ListenerStop ==
  /\ lstop = "idle"
  /\ stops < MaxStops
  /\ running' = FALSE
  /\ lstop' = "send"
  /\ UNCHANGED <<stopChan, lpc, lastF12State, lastCtrlQState, stops, callbacks,
                 late, notPoller>>

\* "l.stopChan <- true" can proceed when the buffer has room: there is no
\* receiver
SendReady(n) == n < StopChanCap

\* l.stopChan <- true, and Stop returns
ListenerStopSend ==
  /\ lstop = "send"
  /\ SendReady(stopChan)
  /\ stopChan' = stopChan + 1
  /\ stops' = stops + 1
  /\ lstop' = "idle"
  /\ UNCHANGED <<running, lpc, lastF12State, lastCtrlQState, callbacks, late,
                 notPoller>>

NextListener ==
  \/ ListenerStart
  \/ PollTest
  \/ PollF12
  \/ PollCtrlQ
  \/ ListenerStop
  \/ ListenerStopSend

SpecListener == Init /\ [][NextListener]_vars

\* ------------------------------------------------------------------ C39
\* C39: a call of the Listener's Stop can always complete, however many
\* calls came before it, and once a Stop has returned the polling goroutine
\* invokes no callback.
C39_StopReturnsAndSilences ==
  /\ lstop = "send" => SendReady(stopChan)
  /\ ~late

\* ======================================================= the Claude client
\* Client of package claude.  SendMessage is one handler: it appends the
\* user's message, builds the request from the whole log, sends it, and
\* appends the reply when one arrives.
Message(role, content) == [role |-> role, content |-> content]

Contents == {"hello", "thanks"}

\* what the HTTP exchange and the decoding of the response come to
Failures ==
  {"failed to execute request", "failed to read response", "Claude API error",
   "failed to parse response", "no content in Claude response"}

\* the log and the payload once the user's message is appended: "Only
\* include system prompt if this is the first message"
Asked(userMessage) ==
  /\ request' = [system   |-> Len(conversationLog) + 1 = 1,
                 messages |-> Append(conversationLog, Message("user", userMessage))]

\* one of the error returns after the append at line 194
SendFails(userMessage, e) ==
  /\ Asked(userMessage)
  /\ conversationLog' = Append(conversationLog, Message("user", userMessage))
  /\ sendRet' = [text |-> "", err |-> e]

\* the reply is appended and returned
SendSucceeds(userMessage, responseText) ==
  /\ Asked(userMessage)
  /\ conversationLog' = Append(Append(conversationLog, Message("user", userMessage)),
                               Message("assistant", responseText))
  /\ sendRet' = [text |-> responseText, err |-> "nil"]

SendMessage ==
  /\ sends < MaxSends
  /\ sends' = sends + 1
  /\ \E userMessage \in Contents :
       \/ \E e \in Failures : SendFails(userMessage, e)
       \/ \E responseText \in Contents : SendSucceeds(userMessage, responseText)
  /\ UNCHANGED <<engine, batch, poller>>

NextClient == SendMessage

SpecClient == Init /\ [][NextClient]_vars

\* ------------------------------------------------------------------ C40
Alternates(log) ==
  \A i \in 1..Len(log) :
    log[i].role = IF i % 2 = 1 THEN "user" ELSE "assistant"

NoReplyYet == \A i \in 1..Len(conversationLog) : conversationLog[i].role # "assistant"

\* C40: the conversation log alternates user and assistant messages,
\* starting with a user message; a failed SendMessage leaves the log as it
\* was before the call; and a request made before any reply was received
\* carries the system prompt.
C40_LogAlternates ==
  /\ [] Alternates(conversationLog)
  /\ [][(sends' = sends + 1 /\ sendRet'.err # "nil") =>
           conversationLog' = conversationLog]_vars
  /\ [][(sends' = sends + 1 /\ NoReplyYet) => request'.system]_vars

\* ------------------------------------------------ the frame as it was sent
\* The header block is what precedes the first blank line and the body is
\* everything after it.
HasSeparator(f) == \E i \in 1..Len(f.data) : f.data[i].t = "sep"
FirstSeparator(f) ==
  CHOOSE k \in 1..Len(f.data) :
     f.data[k].t = "sep" /\ \A j \in 1..(k - 1) : f.data[j].t # "sep"
HeaderOf(f) == SubSeq(f.data, 1, FirstSeparator(f) - 1)
BodyOf(f)   == SubSeq(f.data, FirstSeparator(f) + 1, Len(f.data))

\* the header lines, and whether one of them is exactly Path:speech.phrase
LinesOf(h) ==
  { SubSeq(h, x[1], x[2]) : x \in
      { y \in (1..Len(h)) \X (1..Len(h)) :
          /\ y[1] <= y[2]
          /\ (y[1] = 1 \/ h[y[1] - 1].t = "crlf")
          /\ (y[2] = Len(h) \/ h[y[2] + 1].t = "crlf")
          /\ \A k \in y[1]..y[2] : h[k].t # "crlf" } }

OnFinalPath(f) ==
  f.type = "text" /\ HasSeparator(f) /\ PhrasePath \in LinesOf(HeaderOf(f))

\* the body is one JSON document, possibly with a blank line inside it
Decodes(body) ==
  \/ Len(body) = 1 /\ body[1].t = "json"
  \/ /\ Len(body) = 3
     /\ body[1].t = "json1" /\ body[2].t = "sep" /\ body[3].t = "json2"
     /\ body[1].doc = body[3].doc
DocOf(body) == body[1].doc

\* the receive loop of session s has read frame inbound[s] and has dropped it
\* ("loop") or is inside onRecognized(rtext[s]) ("callback")
Handled(s) == inbound[s] # NoFrame /\ pc[<<"r", s>>] \in {"loop", "callback"}
Recognized(s, text) == pc[<<"r", s>>] = "callback" /\ rtext[s] = text

\* C15: for a text frame on the final-phrase path whose body has
\* RecognitionStatus "Success", onRecognized is invoked with DisplayText when
\* that is non-empty, and with NBest[0].Display when DisplayText is empty and
\* NBest[0].Display is not.
C15_SuccessTextIsRecognized ==
  \A s \in Sessions :
     (/\ Handled(s) /\ OnFinalPath(inbound[s])
      /\ Decodes(BodyOf(inbound[s]))
      /\ DocOf(BodyOf(inbound[s])).status = "Success") =>
        LET d == DocOf(BodyOf(inbound[s])) IN
        /\ d.display # "" => Recognized(s, d.display)
        /\ (d.display = "" /\ Len(d.nbest) > 0 /\ d.nbest[1] # "") =>
              Recognized(s, d.nbest[1])

\* C16: onRecognized is never invoked with an empty string, and never for a
\* frame whose body carries a RecognitionStatus other than "Success".
C16_OnlySuccessAndText ==
  \A s \in Sessions :
     pc[<<"r", s>>] = "callback" =>
        /\ rtext[s] # ""
        /\ inbound[s].type = "text" /\ HasSeparator(inbound[s])
        /\ Decodes(BodyOf(inbound[s])) =>
              /\ DocOf(BodyOf(inbound[s])).status = "Success"
              /\ rtext[s] \in {DocOf(BodyOf(inbound[s])).display}
                     \cup {DocOf(BodyOf(inbound[s])).nbest[i] : i \in {1} \cap
                             DOMAIN DocOf(BodyOf(inbound[s])).nbest}

C16_Witness ==
  /\ Handled(1) /\ pc[<<"r", 1>>] = "loop"
  /\ OnFinalPath(inbound[1])
  /\ BodyOf(inbound[1]) =
       <<Json([status |-> "NoMatch", display |-> "hello", nbest |-> <<"alt">>])>>

\* C17: onRecognized is invoked only for a text frame one of whose header
\* lines is exactly Path:speech.phrase; never for a binary frame or a frame
\* with another Path value, whatever the other header lines contain.
C17_OnlyFinalPhrasePath ==
  \A s \in Sessions :
     pc[<<"r", s>>] = "callback" => OnFinalPath(inbound[s])

\* C18: a frame on the final-phrase path whose body is no JSON document, and a
\* text frame without a blank-line separator, are dropped: no callback is
\* invoked, isListening and isConnected stay set, and the receive loop is back
\* at the top of its loop.
C18_UndecodableIsDropped ==
  \A s \in Sessions :
     (/\ Handled(s) /\ inbound[s].type = "text"
      /\ \/ ~HasSeparator(inbound[s])
         \/ OnFinalPath(inbound[s]) /\ ~Decodes(BodyOf(inbound[s]))) =>
        /\ pc[<<"r", s>>] = "loop" /\ rtext[s] = NoText
        /\ errors = {} /\ isListening /\ isConnected

\* ============================================================ the framer
\* sendAudioChunk and the end-of-audio block of Stop build one binary
\* message: a 2-byte length prefix, the header block, the payload.  The
\* header block is represented by its length, the other two regions by
\* their bytes.

\* uint16(n): the conversion keeps the low 16 bits
Uint16(n) == n % (MaxUint16 + 1)

\* binary.BigEndian.PutUint16 / binary.LittleEndian.PutUint16
PutUint16BE(v) == <<v \div 256, v % 256>>
PutUint16LE(v) == <<v % 256, v \div 256>>

\* a reader of the wire: binary.BigEndian.Uint16 / binary.LittleEndian.Uint16
Uint16BE(b) == b[1] * 256 + b[2]
Uint16LE(b) == b[1] + b[2] * 256

\* the prefix written in little-endian order
HeaderPrefixLittleEndian(n) == PutUint16LE(Uint16(n))

\* headerLength := uint16(len(headerBytes)); PutUint16(message[0:2], headerLength)
HeaderPrefix(n) == PutUint16BE(Uint16(n))

\* len(headerBytes) of fmt.Sprintf("path:audio\r\nx-requestid:%s\r\nx-timestamp:%s\r\n\r\n", ...)
HeaderLen == FormatLen + RequestIdLen + TimestampLen

\* (variant) the samples written high byte first
RECURSIVE SampleBytesBigEndian(_)
SampleBytesBigEndian(c) ==
  IF c = <<>> THEN <<>>
  ELSE PutUint16BE(Uint16(Head(c))) \o SampleBytesBigEndian(Tail(c))

\* for i, sample := range audioData { LittleEndian.PutUint16(audioBytes[i*2:], uint16(sample)) }
RECURSIVE SampleBytes(_)
SampleBytes(c) ==
  IF c = <<>> THEN <<>>
  ELSE PutUint16LE(Uint16(Head(c))) \o SampleBytes(Tail(c))

NotSent(by) ==
  [by |-> by, sent |-> FALSE, prefix |-> <<>>, header |-> 0, payload |-> <<>>]

BinaryMessage(by, hlen, payload) ==
  [by |-> by, sent |-> TRUE, prefix |-> HeaderPrefix(hlen), header |-> hlen,
   payload |-> payload]

\* sendAudioChunk without its guard on the empty chunk
SendAudioChunkUnguarded(c) ==
  BinaryMessage("sendAudioChunk", HeaderLen, SampleBytes(c))

\* sendAudioChunk: if len(audioData) == 0 { return nil }, else one message
SendAudioChunk(c) ==
  IF Len(c) = 0 THEN NotSent("sendAudioChunk")
  ELSE BinaryMessage("sendAudioChunk", HeaderLen, SampleBytes(c))

\* Stop: message := make([]byte, 2+len(headerBytes)); prefix; header; no payload
EndOfAudioMessage == BinaryMessage("Stop", HeaderLen, <<>>)

\* int16 samples delivered by the device, and the chunks made of them
SampleValues == {0, 258, -2}
RECURSIVE ChunksOf(_)
ChunksOf(n) ==
  IF n = 0 THEN {<<>>}
  ELSE LET shorter == ChunksOf(n - 1)
       IN  shorter \cup {Append(c, v) : c \in {x \in shorter : Len(x) = n - 1},
                                         v \in SampleValues}
Chunks == ChunksOf(MaxChunk)

\* every header length a 16-bit prefix can carry, and every chunk with the
\* header block the engine writes
FramerInputs ==
  {[hlen |-> L, chunk |-> <<>>] : L \in 0..MaxUint16}
    \cup {[hlen |-> HeaderLen, chunk |-> c] : c \in Chunks}

InitFramer == InitEngine /\ InitHandler /\ InitOthers /\ fin \in FramerInputs /\ fout = NoMessage

Framed(m) ==
  /\ fout = NoMessage
  /\ fout' = m
  /\ UNCHANGED <<fields, control, chunk, fin, others, handler, recvL, pbuf, env, obs>>

\* the prefix of a header block of fin.hlen bytes
PrefixStep         == Framed([NotSent("prefix") EXCEPT !.prefix = HeaderPrefix(fin.hlen),
                                                        !.header = fin.hlen])
SendAudioChunkStep == Framed(SendAudioChunk(fin.chunk))
EndOfAudioStep     == Framed(EndOfAudioMessage)

NextFramer == PrefixStep \/ SendAudioChunkStep \/ EndOfAudioStep
SpecFramer == InitFramer /\ [][NextFramer]_vars

\* ------------------------------------------------------------------ C19
\* C19: for every header block of length L, 0 <= L <= 65535, the two prefix
\* bytes the framer writes read back as a big-endian uint16 equal to L, and
\* read as little-endian they give another number whenever the two bytes
\* differ.
C19_PrefixRoundTrip ==
  Len(fout.prefix) = 2 =>
    LET L == IF fout.by = "prefix" THEN fin.hlen ELSE HeaderLen
    IN  /\ L \in 0..MaxUint16
        /\ fout.header = L
        /\ fout.prefix[1] \in 0..255 /\ fout.prefix[2] \in 0..255
        /\ Uint16BE(fout.prefix) = L
        /\ fout.prefix[1] # fout.prefix[2] => Uint16LE(fout.prefix) # L

C19_Witness ==
  /\ fout.by = "prefix" /\ fin.hlen = 258
  /\ fout.prefix = <<1, 2>>
  /\ Uint16BE(fout.prefix) = 258 /\ Uint16LE(fout.prefix) = 513

\* ------------------------------------------------------------------ C20
\* C20: the end-of-audio message is a length prefix and a non-empty header
\* block with no payload; sendAudioChunk writes nothing for an empty chunk,
\* so every message it does write carries at least one sample.
C20_EndOfAudioShape ==
  /\ fout.by = "Stop" =>
       /\ fout.sent /\ Len(fout.prefix) = 2
       /\ fout.header > 0 /\ Uint16BE(fout.prefix) = fout.header
       /\ fout.payload = <<>>
  /\ fout.by = "sendAudioChunk" =>
       IF fin.chunk = <<>> THEN ~fout.sent
       ELSE /\ fout.sent
            /\ Len(fout.payload) = 2 * Len(fin.chunk)
            /\ Len(fout.payload) >= 2

C20_Witness ==
  /\ fout.by = "sendAudioChunk" /\ fin.chunk = <<>> /\ ~fout.sent

\* ------------------------------------------------------------------ C21
\* the header block as bytes: Sprintf's output, byte i standing for the
\* i-th character of the block
HeaderBytes(L) == [i \in 1..L |-> i % 128]

\* message := make([]byte, 2+len(headerBytes)+len(audioBytes)); PutUint16 into
\* message[0:2]; copy(message[2:2+len(headerBytes)], headerBytes);
\* copy(message[2+len(headerBytes):], audioBytes)
MessageBytes(m) == m.prefix \o HeaderBytes(m.header) \o m.payload

\* byte k of the message, counted from 0 as the code does
ByteAt(m, k) == MessageBytes(m)[k + 1]

\* C21: an audio frame of N >= 1 samples with a header block of L bytes is
\* exactly 2 + L + 2N bytes; bytes 0-1 are L big-endian, bytes 2..2+L-1 are
\* the header block, and sample i lies at bytes 2+L+2i (low byte) and
\* 2+L+2i+1 (high byte).
C21_AudioFrameLayout ==
  (fout.by = "sendAudioChunk" /\ fout.sent) =>
    LET N == Len(fin.chunk)
        L == HeaderLen
    IN  /\ N >= 1
        /\ Len(MessageBytes(fout)) = 2 + L + 2 * N
        /\ ByteAt(fout, 0) * 256 + ByteAt(fout, 1) = L
        /\ \A k \in 2..(2 + L - 1) : ByteAt(fout, k) = HeaderBytes(L)[k - 1]
        /\ \A i \in 0..(N - 1) :
              /\ ByteAt(fout, 2 + L + 2 * i) = Uint16(fin.chunk[i + 1]) % 256
              /\ ByteAt(fout, 2 + L + 2 * i + 1) = Uint16(fin.chunk[i + 1]) \div 256

C21_Witness ==
  /\ fout.by = "sendAudioChunk" /\ fout.sent
  /\ fin.chunk = <<258, -2>>
  /\ fout.payload = <<2, 1, 254, 255>>

\* ------------------------------------------------------------------ C22
\* the samples of the audio frames handed to WriteMessage on connection c,
\* in the order they were written
RECURSIVE PayloadsOf(_)
PayloadsOf(frames) ==
  IF frames = <<>> THEN <<>>
  ELSE (IF Head(frames).kind = "audio" THEN Head(frames).data ELSE <<>>)
          \o PayloadsOf(Tail(frames))

SentSamples(c) == PayloadsOf(wire[c])

\* the callback delivers samples 1, 2, ...: a subsequence without repetition
\* is a strictly increasing sequence
InDeliveryOrder(q) == \A i, j \in 1..Len(q) : i < j => q[i] < q[j]

\* C22: the payloads of the audio frames written on a connection, put end to
\* end, are a subsequence of the samples the capture callback delivered: in
\* delivery order and with no sample twice.
C22_SentInDeliveryOrder ==
  \A c \in 1..MaxDials :
     /\ InDeliveryOrder(SentSamples(c))
     /\ \A i \in 1..Len(SentSamples(c)) : SentSamples(c)[i] \in 1..samples

\* ------------------------------------------------------------------ C23
Sent(v) == \E c \in 1..MaxDials : \E i \in 1..Len(SentSamples(c)) : SentSamples(c)[i] = v

\* the step of the flush task of session s that resets the buffer
ResetStep(s) == pc[<<"f", s>>] = "reset" /\ pc'[<<"f", s>>] = "wait"

\* C23: no sample is dropped at a flush: whatever the callback has appended
\* to the buffer when the flush task resets it has been sent in an audio
\* frame by then.
C23_NoSampleDroppedAtFlush ==
  [][\A s \in Sessions :
        ResetStep(s) => \A i \in 1..Len(audioBuffer) : Sent(audioBuffer[i])]_vars

\* ------------------------------------------------------------------ C24
SendError(s)  == [by |-> <<"f", s>>, cause |-> "send", local |-> FALSE]
SendFailed(s) == SendError(s) \in errors

\* the step in which the send of the flush task of session s fails
SendFailureStep(s) ==
  pc[<<"f", s>>] = "send" /\ SendError(s) \notin errors /\ SendError(s) \in errors'

\* a step that hands an audio frame with samples to WriteMessage
WritesAudio == \E c \in 1..MaxDials : AudioWritten(c)' > AudioWritten(c)

\* C24: when the send of a flush tick fails, onError is invoked once with that
\* error and the flush task exits; from then on the task takes no step, so the
\* chunk is not sent again and the session sends no further audio frame.
C24_SendFailureEndsFlush ==
  [][/\ \A s \in Sessions :
           /\ SendFailureStep(s) =>
                 /\ OnErrorCalls' = OnErrorCalls + 1
                 /\ pc'[<<"f", s>>] = "done"
           /\ SendFailed(s) =>
                 /\ pc[<<"f", s>>] = "done" /\ pc'[<<"f", s>>] = "done"
                 /\ OnErrorCalls' >= OnErrorCalls
                 /\ SendFailed(s)'
     /\ WritesAudio =>
           \E s \in Sessions : pc[<<"f", s>>] = "send" /\ ~SendFailed(s)]_vars

C24_Witness ==
  /\ SendFailed(1) /\ pc[<<"f", 1>>] = "done"
  /\ isListening /\ audioBuffer # <<>>
  /\ AudioWritten(1) = 1

\* ------------------------------------------------------------------ C25
\* the positions of the end-of-audio markers among the frames of connection c
EndOfAudioAt(c) == {i \in 1..Len(wire[c]) : IsEndOfAudio(wire[c][i])}

\* C25: the end-of-audio marker written by the teardown is written while the
\* connection is open and is the last frame written on that connection: no
\* audio frame of the flush task follows it.
C25_EndOfAudioIsLast ==
  \A c \in 1..MaxDials : \A i \in EndOfAudioAt(c) : i = Len(wire[c])

\* ------------------------------------------------------------------ C26
ConfigCount(c) == Cardinality({i \in 1..Len(wire[c]) : IsConfig(wire[c][i])})

\* C26: on a connection that has carried frames, exactly one configuration
\* frame was written, and it was the first frame: it precedes every audio
\* frame and the end-of-audio frame.
C26_ConfigFrameFirst ==
  \A c \in 1..MaxDials :
     wire[c] # <<>> => IsConfig(wire[c][1]) /\ ConfigCount(c) = 1

\* ------------------------------------------------------------------ C27
\* every frame written so far carries the request identifier of the engine
OneRequestId ==
  \A c \in 1..MaxDials : \A i \in 1..Len(wire[c]) : wire[c][i].rid = requestId

\* the step in which a dial succeeds
DialSucceeds == dialled' = dialled + 1

\* the step in which the configuration frame of caller t's connect fails to
\* be written: connectWebSocket returns the error
ConfigFailureStep(t) ==
  /\ pc[t] \in {"start_config", "test_config"} /\ pc'[t] = "returned"
  /\ ret'[t] \in {"err_connect", "err_test"}

\* C27 as stated: the frames of a session carry one request identifier, and
\* the connection identifier is assigned by the connects that succeed and by
\* nothing else: a connect that fails leaves no identifier of its own.
C27_IdOnlyOnSuccessfulConnect ==
  /\ []OneRequestId
  /\ [][/\ requestId' = requestId
        /\ connectionId' # connectionId => DialSucceeds
        /\ \A t \in Callers : ConfigFailureStep(t) => connectionId # conn]_vars

\* C27, amended: the frames of a session carry one request identifier, and
\* the connection identifier is assigned anew by every dial that succeeds,
\* also when the configuration frame then fails, and by no other step.
C27_IdOnEachDial ==
  /\ []OneRequestId
  /\ [][/\ requestId' = requestId
        /\ connectionId' # connectionId <=> DialSucceeds]_vars

C27_Witness ==
  /\ sessions = 2 /\ isListening /\ connectionId = 2 /\ conn = 2
  /\ Len(wire[1]) >= 2 /\ wire[2] # <<>> /\ OneRequestId

\* ------------------------------------------------------------------ C28
CallbackInFlight == pc[AudioCb] = "append"

\* C28: the audio callback never waits for the session lock: an invocation
\* in flight can always complete, whoever holds the mutex; and whoever holds
\* the mutex can take its next step or is waiting, in the stream's stop, for
\* a callback that can complete.  So no state has the lock holder and the
\* callback both stuck.
C28_CallbackNeverBlocks ==
  ~crashed =>
    /\ CallbackInFlight => ENABLED ProcessAudioAppend
    /\ \A t \in Callers \cup FlushTasks :
          mutex = t => (ENABLED HolderStep(t)) \/ CallbackInFlight

C28_Witness ==
  /\ mutex = Hotkey /\ pc[Hotkey] = "stop_cleanup"
  /\ CallbackInFlight /\ ~ENABLED StopCleanup(Hotkey)
  /\ ENABLED ProcessAudioAppend

\* ------------------------------------------------------------------ C29
\* the bytes handleTextMessage hands to json.Unmarshal: body := parts[1]
DecodedBody(f) == Split(f.data)[2]

\* C29: the body handed to JSON decoding is everything after the first
\* blank-line separator of the text frame: a body with a blank-line sequence
\* inside it is decoded whole.
C29_BodyIsAllAfterFirstSeparator ==
  \A s \in Sessions :
     (/\ Handled(s) /\ inbound[s].type = "text" /\ HasSeparator(inbound[s])
      /\ ContainsPhrasePath(HeaderOf(inbound[s]))) =>
        DecodedBody(inbound[s]) = BodyOf(inbound[s])

\* ------------------------------------------------------------------ C30
\* the handler has returned from a press
PressHandled == hpc = "idle" /\ requests # <<>>

\* C30: each F12 press issues exactly one engine request: a press while not
\* recording one StartContinuousRecognition, a press while recording one
\* StopContinuousRecognition and nothing else, after which the engine is not
\* listening and isRecording is false.
C30_OneRequestPerPress ==
  PressHandled =>
     /\ Len(requests) = 1
     /\ requests[1] = "stop" => ~isListening /\ ~isRecording

\* ------------------------------------------------------------------ C31
\* the step in which the watchdog branch of the task of session s enters
\* the teardown of Stop
WatchdogTeardown(s) ==
  pc[<<"f", s>>] = "wait" /\ pc'[<<"f", s>>] = "stop_eoa"

\* C31: the watchdog stops only the session it was started for: the task of
\* an earlier session never tears down a later session.
C31_WatchdogStopsOwnSession ==
  [][\A s \in Sessions : WatchdogTeardown(s) => sessions = s]_vars

\* ------------------------------------------------------------------ C32
\* the step in which the flush task of session s hands a frame to
\* WriteMessage, and the one in which its receive task dispatches a frame
TaskSends(s) == pc[<<"f", s>>] = "send" /\ wire' # wire

TaskDispatches(s) == pc[<<"r", s>>] = "read" /\ inbound'[s] # NoFrame

\* C32: only the tasks of the current session send or dispatch: once a
\* later session has been started, a task of an earlier session sends no
\* frame and dispatches no message.
C32_OnlyCurrentTasksAct ==
  [][\A s \in Sessions : (TaskSends(s) \/ TaskDispatches(s)) => s = sessions]_vars

\* ------------------------------------------------------------------ C33
\* C33: neither the flush task nor the receive loop ever calls WriteMessage
\* or ReadMessage on a nil connection handle.
C33_NoNilConnection == ~crashed

\* ------------------------------------------------------------------ C34
\* no Start, Stop, TestConnection or Close is in progress: every caller is
\* outside the engine and no watchdog is inside Stop
NoCallInProgress ==
  /\ ~crashed
  /\ mutex = None
  /\ \A t \in Callers : pc[t] \in {"idle", "returned"}
  /\ \A t \in FlushTasks : pc[t] \in {"unborn", "wait", "send", "reset", "done"}

\* C34: in every state where no Start, Stop, TestConnection or Close is in
\* progress, isListening implies isConnected, a non-nil connection handle
\* and a non-nil audio stream, and isShuttingDown is false.
C34_QuiescentFlags ==
  NoCallInProgress =>
    /\ isListening => (isConnected /\ conn # NoConn /\ stream # NoStream)
    /\ ~isShuttingDown

\* ------------------------------------------------------------------ C35
\* the teardown of session s has completed and no session was started after
\* it
Stopped(s) == sessions = s /\ teardowns[s] # <<>> /\ ~isListening

\* a start was issued after the teardown of session s: it has dialled a
\* connection or begun a later session
FurtherStart(s) == conn # NoConn \/ sessions # s

\* a task is over when its goroutine has returned; a panic ends the process
\* and every goroutine with it
Terminated(t) == crashed \/ pc[t] = "done"

\* C35: once the teardown of a session has completed, the flush task and
\* the receive task of that session eventually terminate, unless a further
\* start is issued first.
C35_TasksTerminateAfterStop ==
  \A s \in Sessions :
    Stopped(s) ~> \/ Terminated(<<"f", s>>) /\ Terminated(<<"r", s>>)
                  \/ FurtherStart(s)

C35_Witness ==
  /\ Stopped(1) /\ ~crashed
  /\ pc[<<"f", 1>>] = "done" /\ pc[<<"r", 1>>] = "done"

====
